---------------------------- MODULE Spec2Model ----------------------------
(***************************************************************************)
(* Model of the notebook "NuSTAR Sun Pointing Example": the two functions  *)
(* get_sky_position and get_nustar_roll and the two usage cells that call  *)
(* them.                                                                   *)
(*                                                                         *)
(* Numbers.  The notebook computes in binary floating point.  The model    *)
(* computes the same expressions over exact rationals <<n, d>> (d > 0,     *)
(* lowest terms), so rounding of the float operations is not modelled;     *)
(* the values of the library functions cos, sin, get_sun and solar_north   *)
(* are table entries (rounded as a library rounds them).                   *)
(*                                                                         *)
(* Time.  Every timestamp lies on 2016-07-26; a datetime is the pair       *)
(* (second of the day, microsecond), a timedelta the pair (seconds,        *)
(* microseconds) Python normalises it to.                                  *)
(***************************************************************************)
EXTENDS Integers, Sequences, FiniteSets, TLC

VARIABLES
    aim_time,      \* notebook global aim_time: a time string or a datetime
    offset,        \* notebook global offset: array (with or without a unit)
    angle,         \* notebook global angle: a Quantity
    dwell_start,   \* notebook global dwell_start (time string), None before cell 5
    dwell_end,     \* notebook global dwell_end
    sky_pos,       \* notebook global sky_pos, Unset until assigned
    nustar_roll,   \* notebook global nustar_roll, Unset until assigned
    args,          \* for each function, the arguments of its latest call (as
                   \* they were when the call was made), None if never called
    exc            \* for each function, how its latest call ended: "notcalled",
                   \* "none" (it returned) or the exception it raised

vars == <<aim_time, offset, angle, dwell_start, dwell_end, sky_pos, nustar_roll, args, exc>>

(***************************************************************************)
(* Bounds of the model.                                                    *)
(***************************************************************************)
\* whole turns added to or taken from the requested field-of-view angle
MaxTurns == 1
\* rows of an n-by-2 offset array
MaxRows == 2

None == [kind |-> "None"]
Unset == [status |-> "unset"]
NoCalls == [get_sky_position |-> "notcalled", get_nustar_roll |-> "notcalled"]

(***************************************************************************)
(* Exact rational arithmetic standing for the float arithmetic of numpy.   *)
(***************************************************************************)
Abs(n) == IF n < 0 THEN -n ELSE n

RECURSIVE GCD(_, _)
GCD(a, b) == IF b = 0 THEN a ELSE GCD(b, a % b)

LCM(a, b) == (a \div GCD(a, b)) * b

\* the rational n/d in lowest terms with a positive denominator
Rat(n, d) ==
    LET g == GCD(Abs(n), Abs(d))
        s == IF d < 0 THEN -1 ELSE 1
    IN  <<(s * n) \div g, (s * d) \div g>>

RInt(n) == <<n, 1>>
RZero == RInt(0)
ROne == RInt(1)

RAdd(a, b) ==
    LET l == LCM(a[2], b[2])
    IN  Rat(a[1] * (l \div a[2]) + b[1] * (l \div b[2]), l)

RNeg(a) == <<-a[1], a[2]>>

RMul(a, b) ==
    LET g1 == GCD(Abs(a[1]), b[2])
        g2 == GCD(Abs(b[1]), a[2])
    IN  Rat((a[1] \div g1) * (b[1] \div g2), (a[2] \div g2) * (b[2] \div g1))

\* a / b, b # 0
RDiv(a, b) == RMul(a, Rat(b[2], b[1]))

RLess(a, b) == a[1] * b[2] < b[1] * a[2]

RFloor(a) == a[1] \div a[2]

\* np.fmod: the remainder takes the sign of the dividend (C fmod)
RFmod(a, m) ==
    LET q == RDiv(a, m)
        t == IF q[1] < 0 THEN -((-q[1]) \div q[2]) ELSE q[1] \div q[2]
    IN  RAdd(a, RNeg(RMul(RInt(t), m)))

\* np.mod: the remainder takes the sign of the divisor (floored division)
RMod(a, m) == RAdd(a, RNeg(RMul(RInt(RFloor(RDiv(a, m))), m)))

(***************************************************************************)
(* Units (astropy.units).  An angular unit has a factor to degrees.        *)
(***************************************************************************)
AngularUnits == {"deg", "arcmin", "arcsec"}

\* the number of degrees in one `unit`
DegPer(unit) ==
    CASE unit = "deg" -> ROne
      [] unit = "arcmin" -> Rat(1, 60)
      [] unit = "arcsec" -> Rat(1, 3600)


(***************************************************************************)
(* Time: time strings, datetime and timedelta.                             *)
(***************************************************************************)
MicrosPerSecond == 1000 * 1000

\* the time string "2016-07-26Thh:mm:ss[.frac]", frac a sequence of digits
TimeString(h, m, s, frac) == [kind |-> "str", h |-> h, m |-> m, s |-> s, frac |-> frac]

RECURSIVE Pow10(_)
Pow10(k) == IF k = 0 THEN 1 ELSE 10 * Pow10(k - 1)

\* the microseconds the fraction digits of a time string denote (%f)
RECURSIVE FracMicros(_)
FracMicros(frac) ==
    IF frac = <<>> THEN 0
    ELSE LET k == Len(frac)
         IN  frac[k] * Pow10(6 - k) + FracMicros(SubSeq(frac, 1, k - 1))

datetime(sec, usec) == [kind |-> "datetime", sec |-> sec, usec |-> usec]

\* sunpy.time.parse_time: a datetime is returned as it is, a string is parsed
parse_time(time) ==
    IF time.kind = "datetime" THEN time
    ELSE datetime(time.h * 3600 + time.m * 60 + time.s, FracMicros(time.frac))

\* astropy.time.Time(datetime): the UTC instant
astropy_Time(date) == [scale |-> "utc", sec |-> date.sec, usec |-> date.usec]

timedelta(sec, usec) == [sec |-> sec, usec |-> usec]

\* end_date - start_date, normalised to 0 <= usec < 10^6
datetime_sub(end, start) ==
    LET us == end.usec - start.usec
    IN  IF us < 0 THEN timedelta(end.sec - start.sec - 1, us + MicrosPerSecond)
        ELSE timedelta(end.sec - start.sec, us)

\* dt * 0.5 with the half microsecond dropped instead of rounded
timedelta_half_floor(dt) ==
    LET us == (dt.sec % 2) * (MicrosPerSecond \div 2) + dt.usec \div 2
    IN  timedelta(dt.sec \div 2, us)

\* dt * 0.5: the exact half, rounded to a whole microsecond, ties to even
timedelta_half(dt) ==
    LET q == dt.usec \div 2
        tie == dt.usec % 2 = 1
        qr == IF tie /\ q % 2 = 1 THEN q + 1 ELSE q
        us == (dt.sec % 2) * (MicrosPerSecond \div 2) + qr
    IN  IF us >= MicrosPerSecond
        THEN timedelta(dt.sec \div 2 + 1, us - MicrosPerSecond)
        ELSE timedelta(dt.sec \div 2, us)

\* start_date + dt
datetime_add(date, dt) ==
    LET us == date.usec + dt.usec
    IN  IF us >= MicrosPerSecond
        THEN datetime(date.sec + dt.sec + 1, us - MicrosPerSecond)
        ELSE datetime(date.sec + dt.sec, us)

\* cell 5: aim_time = start_date + dt*0.5
dwell_midpoint(start, end) ==
    LET start_date == parse_time(start)
        end_date == parse_time(end)
        dt == datetime_sub(end_date, start_date)
    IN  datetime_add(start_date, timedelta_half(dt))

(***************************************************************************)
(* The collaborators: astropy's get_sun and sunpy's solar_north, as tables *)
(* of the values they return.  The entries span the Sun's declination      *)
(* (|Dec| < 23.5 deg) and the north-pole angle (|P| < 26.4 deg, of either  *)
(* sign); cos and sin are the rounded values of the library.               *)
(***************************************************************************)
SunTable ==
    << [ra |-> Rat(3158, 25), dec |-> Rat(813, 50),   cos |-> Rat(24, 25)],
       [ra |-> Rat(541, 2),   dec |-> Rat(-1131, 50), cos |-> Rat(12, 13)],
       [ra |-> Rat(3599, 10), dec |-> RZero,          cos |-> ROne] >>

NorthTable ==
    << [deg |-> RZero,          cos |-> ROne,        sin |-> RZero],
       [deg |-> Rat(813, 50),   cos |-> Rat(24, 25), sin |-> Rat(7, 25)],
       [deg |-> Rat(-813, 50),  cos |-> Rat(24, 25), sin |-> Rat(-7, 25)],
       [deg |-> Rat(1131, 50),  cos |-> Rat(12, 13), sin |-> Rat(5, 13)] >>

\* astropy.coordinates.get_sun(astro_time): the Sun's RA and Dec
get_sun(astro_time) == SunTable[(astro_time.sec % Len(SunTable)) + 1]

\* sunpy.sun.solar_north(t=time): the north-pole position angle; solar_north
\* parses the time it is given itself
solar_north(time) == NorthTable[(parse_time(time).sec % Len(NorthTable)) + 1]

\* np.cos of the declination sun_pos[1], a Quantity in degrees
cos_dec(astro_sun_pos) == astro_sun_pos.cos

(***************************************************************************)
(* Arrays and Quantities.  An array is [unit, ndim, data]: data is a       *)
(* rational (ndim 0), a tuple of rationals (ndim 1) or a tuple of rows     *)
(* of equal length (ndim 2); unit is "none" for a plain numpy array.       *)
(***************************************************************************)
Array(unit, ndim, data) == [unit |-> unit, ndim |-> ndim, data |-> data]

Raised(type) == [raised |-> type]
Returned(value) == [raised |-> "none", value |-> value]

\* every element of the array is zero
AllZero(a) ==
    CASE a.ndim = 0 -> a.data = RZero
      [] a.ndim = 1 -> \A i \in DOMAIN a.data : a.data[i] = RZero
      [] a.ndim = 2 -> \A i \in DOMAIN a.data : \A j \in DOMAIN a.data[i] : a.data[i][j] = RZero

\* the rotation matrix of get_sky_position, a plain 2x2 array
rotMatrixCW(sun_np) ==
    << <<sun_np.cos, RNeg(sun_np.sin)>>,
       <<sun_np.sin, sun_np.cos>> >>

rotMatrix(sun_np) ==
    << <<sun_np.cos, sun_np.sin>>,
       <<RNeg(sun_np.sin), sun_np.cos>> >>

\* a row vector of two elements times a 2x2 matrix
DotRow(row, M) ==
    << RAdd(RMul(row[1], M[1][1]), RMul(row[2], M[2][1])),
       RAdd(RMul(row[1], M[1][2]), RMul(row[2], M[2][2])) >>

\* np.dot(a, M) for a 2x2 matrix M: a scalar scales M, a vector or the rows of
\* a 2-d array must have as many elements as M has rows; the result keeps
\* a's unit
np_dot(a, M) ==
    CASE a.ndim = 0 ->
            Returned(Array(a.unit, 2,
                [i \in 1..2 |-> [j \in 1..2 |-> RMul(a.data, M[i][j])]]))
      [] a.ndim = 1 ->
            IF Len(a.data) # Len(M) THEN Raised("ValueError")
            ELSE Returned(Array(a.unit, 1, DotRow(a.data, M)))
      [] a.ndim = 2 ->
            IF \E i \in DOMAIN a.data : Len(a.data[i]) # Len(M) THEN Raised("ValueError")
            ELSE Returned(Array(a.unit, 2, [i \in DOMAIN a.data |-> DotRow(a.data[i], M)]))

\* a * v for an array a whose last axis has two elements and a plain
\* two-element vector v (broadcast over the rows); the result keeps a's unit
MulLastAdd(a, v) ==
    IF a.ndim = 1 THEN Array(a.unit, 1, [j \in 1..2 |-> RAdd(a.data[j], v[j])])
    ELSE Array(a.unit, 2, [i \in DOMAIN a.data |-> [j \in 1..2 |-> RAdd(a.data[i][j], v[j])]])

MulLast(a, v) ==
    IF a.ndim = 1 THEN Array(a.unit, 1, [j \in 1..2 |-> RMul(a.data[j], v[j])])
    ELSE Array(a.unit, 2, [i \in DOMAIN a.data |-> [j \in 1..2 |-> RMul(a.data[i][j], v[j])]])

\* the factor that converts b to degrees when b is added to a Quantity in
\* degrees: an angular unit converts; an operand that is not a Quantity is
\* accepted only if it is all zero (and is then taken as it is)
ToDegreesNoScale(b) ==
    IF b.unit \in AngularUnits \/ (b.unit = "none" /\ AllZero(b)) THEN Returned(ROne)
    ELSE Raised("UnitConversionError")

ToDegreesStrict(b) ==
    IF b.unit \in AngularUnits THEN Returned(DegPer(b.unit))
    ELSE Raised("UnitConversionError")

ToDegrees(b) ==
    IF b.unit \in AngularUnits THEN Returned(DegPer(b.unit))
    ELSE IF b.unit = "none" /\ AllZero(b) THEN Returned(ROne)
    ELSE Raised("UnitConversionError")

\* sun_pos + b for the two-element Quantity sun_pos in degrees (broadcast over
\* the rows of b)
AddToSunPos(sun_pos, b) ==
    LET f == ToDegrees(b)
    IN  IF f.raised # "none" THEN f
        ELSE Returned(
            IF b.ndim = 1
            THEN Array("deg", 1, [j \in 1..2 |-> RAdd(sun_pos[j], RMul(b.data[j], f.value))])
            ELSE Array("deg", 2, [i \in DOMAIN b.data |->
                    [j \in 1..2 |-> RAdd(sun_pos[j], RMul(b.data[i][j], f.value))]]))

\* sun_pos = np.array([astro_sun_pos.ra.deg, astro_sun_pos.dec.deg]) * u.deg
SunPosSwapped(astro_sun_pos) == <<astro_sun_pos.dec, astro_sun_pos.ra>>

SunPos(astro_sun_pos) == <<astro_sun_pos.ra, astro_sun_pos.dec>>

\* np.array([1. / np.cos(sun_pos[1]), 1.]): only the RA component is scaled
scale_to_ra_both(astro_sun_pos) ==
    <<RDiv(ROne, cos_dec(astro_sun_pos)), RDiv(ROne, cos_dec(astro_sun_pos))>>

scale_to_ra(astro_sun_pos) == <<RDiv(ROne, cos_dec(astro_sun_pos)), ROne>>

\* the body of get_sky_position: what the call returns or raises
sky_position(time, off) ==
    LET start_date == parse_time(time)
        astro_time == astropy_Time(start_date)
        astro_sun_pos == get_sun(astro_time)
        sun_np == solar_north(time)
        sun_pos == SunPos(astro_sun_pos)
        dotted == np_dot(off, rotMatrix(sun_np))
        scaled == MulLast(dotted.value, scale_to_ra(astro_sun_pos))
        flipped == MulLast(scaled, <<RInt(-1), ROne>>)
    IN  IF dotted.raised # "none" THEN dotted ELSE AddToSunPos(sun_pos, flipped)

\* the same body with the sign flip done in place on the caller's array
\* (offset *= [-1.0, 1.0]) when the array has a last axis of two elements
get_sky_position_inplace(time, off) ==
    LET r == sky_position(time, off)
    IN  [raised |-> r.raised,
         value |-> IF r.raised = "none" THEN r.value ELSE Unset,
         offset |-> IF r.raised = "none" /\ off.ndim > 0
                    THEN MulLast(off, <<RInt(-1), ROne>>) ELSE off]

\* get_sky_position(time, offset): what it returns or raises, and the offset
\* object as the call leaves it (every step binds a new array)
get_sky_position(time, off) ==
    LET r == sky_position(time, off)
    IN  [raised |-> r.raised,
         value |-> IF r.raised = "none" THEN r.value ELSE Unset,
         offset |-> off]

\* np.mod(x, 360 deg) and the np.fmod it could be mistaken for
FullCircle == 360

np_fmod_360(x) == RFmod(x, RInt(FullCircle))

np_mod_360(x) == RMod(x, RInt(FullCircle))

\* get_nustar_roll(time, angle)
get_nustar_roll(time, ang) ==
    LET start_date == parse_time(time)
        astro_time == astropy_Time(start_date)
        sun_np == solar_north(time).deg
        f == ToDegrees(ang)
    IN  IF f.raised # "none" THEN [raised |-> f.raised, value |-> Unset]
        ELSE [raised |-> "none",
              value |-> Array("deg", 0, np_mod_360(RAdd(sun_np, RMul(ang.data, f.value))))]

(***************************************************************************)
(* The inputs a session is run with.                                       *)
(***************************************************************************)
\* aim_time literals of the usage cell ('2016-07-26T19:53:15.00', ...)
AimTimes ==
    { TimeString(19, 53, 15, <<0, 0>>),
      TimeString(19, 22, 10, <<>>) }

\* dwell_start and dwell_end literals of cell 5: the window of the notebook,
\* a window of an odd number of microseconds, a window that ends before it
\* starts and an empty window
DwellWindows ==
    { <<TimeString(19, 22, 10, <<>>), TimeString(20, 24, 20, <<>>)>>,
      <<TimeString(19, 22, 10, <<0, 0, 0, 0, 0, 1>>), TimeString(20, 24, 20, <<>>)>>,
      <<TimeString(20, 24, 20, <<>>), TimeString(19, 22, 10, <<>>)>>,
      <<TimeString(20, 24, 20, <<>>), TimeString(20, 24, 20, <<>>)>> }

\* the literals a timestamp may be written as
TimeStrings ==
    AimTimes \cup {w[1] : w \in DwellWindows} \cup {w[2] : w \in DwellWindows}
    \cup { TimeString(19, 53, 15, <<>>), TimeString(19, 53, 15, <<0, 0, 0, 0, 0, 1>>) }

OffsetValues == {-1000, 0, 150}

OffsetRows == { <<RInt(1000), RInt(150)>>, <<RZero, RZero>> }

\* np.array([x, y]) * unit and the malformed offsets: without a unit, with a
\* unit that is no angle, a scalar, vectors of one and three elements,
\* n-by-2 arrays and a 1-by-3 array
Offsets ==
    { Array("arcsec", 1, <<RInt(x), RInt(y)>>) : x \in OffsetValues, y \in OffsetValues }
    \cup { Array("arcsec", 1, <<RInt(1000), RInt(150)>>) }
    \cup { Array(u, 1, <<RInt(x), RInt(150)>>) : u \in {"arcmin", "none"}, x \in {-1000, 150} }
    \cup { Array(u, 1, <<RZero, RZero>>) : u \in {"arcmin", "none", "m"} }
    \cup { Array("m", 1, <<RInt(1000), RInt(150)>>) }
    \cup { Array("arcsec", 0, RInt(150)), Array("none", 0, RInt(150)), Array("none", 0, RZero) }
    \cup { Array("arcsec", 1, <<RInt(150)>>) }
    \cup { Array(u, 1, <<RInt(1000), RInt(150), RZero>>) : u \in {"arcsec", "none"} }
    \cup { Array("arcsec", 2, rows) : rows \in UNION { [1..n -> OffsetRows] : n \in 1..MaxRows } }
    \cup { Array("none", 2, << <<RInt(1000), RInt(150)>> >>) }
    \cup { Array("arcsec", 2, << <<RInt(1000), RInt(150), RZero>> >>) }

\* the field-of-view angles: whole turns, negative and beyond 360 degrees,
\* and one given in arcminutes
Angles ==
    { Array("deg", 0, RInt(FullCircle * k)) : k \in -MaxTurns..MaxTurns }
    \cup { Array("deg", 0, RInt(90)), Array("deg", 0, RInt(-450)),
           Array("arcmin", 0, RInt(5400)) }

(***************************************************************************)
(* The session.  Init: the kernel after cells 1-3 (imports and the two     *)
(* function definitions), with the literals the usage cells give offset    *)
(* and angle drawn from the input sets.                                    *)
(***************************************************************************)
Init ==
    /\ aim_time = None
    /\ offset \in Offsets
    /\ angle \in Angles
    /\ dwell_start = None
    /\ dwell_end = None
    /\ sky_pos = Unset
    /\ nustar_roll = Unset
    /\ args = [get_sky_position |-> None, get_nustar_roll |-> None]
    /\ exc = NoCalls

\* sky_pos = get_sky_position(aim_time, offset)
\* nustar_roll = get_nustar_roll(aim_time, angle)
\* with aim_time already bound to t: an exception ends the cell, the names
\* not yet assigned keep their values and the second function is not called
CallBoth(t) ==
    LET r == get_sky_position(t, offset)
        q == get_nustar_roll(t, angle)
    IN  /\ offset' = r.offset
        /\ IF r.raised # "none"
           THEN /\ args' = [args EXCEPT !.get_sky_position = [time |-> t, offset |-> offset]]
                /\ exc' = [exc EXCEPT !.get_sky_position = r.raised]
                /\ UNCHANGED <<sky_pos, nustar_roll>>
           ELSE /\ sky_pos' = r.value
                /\ args' = [get_sky_position |-> [time |-> t, offset |-> offset],
                            get_nustar_roll |-> [time |-> t, angle |-> angle]]
                /\ exc' = [get_sky_position |-> "none", get_nustar_roll |-> q.raised]
                /\ IF q.raised # "none"
                   THEN UNCHANGED nustar_roll
                   ELSE nustar_roll' = q.value

\* cell 4: the literal aim time
UsageCell(t) ==
    /\ aim_time' = t
    /\ CallBoth(t)
    /\ UNCHANGED <<angle, dwell_start, dwell_end>>

\* cell 5: the aim time is the midpoint of the dwell
DwellCell(start, end) ==
    /\ dwell_start' = start
    /\ dwell_end' = end
    /\ aim_time' = dwell_midpoint(start, end)
    /\ CallBoth(dwell_midpoint(start, end))
    /\ UNCHANGED angle

\* a call of get_sky_position alone, with the current aim_time and offset
GetSkyPosition ==
    /\ aim_time # None
    /\ LET r == get_sky_position(aim_time, offset)
       IN  /\ offset' = r.offset
           /\ args' = [args EXCEPT !.get_sky_position = [time |-> aim_time, offset |-> offset]]
           /\ exc' = [exc EXCEPT !.get_sky_position = r.raised]
           /\ IF r.raised # "none" THEN UNCHANGED sky_pos ELSE sky_pos' = r.value
    /\ UNCHANGED <<aim_time, angle, dwell_start, dwell_end, nustar_roll>>

\* a call of get_nustar_roll alone, with the current aim_time and angle
GetNustarRoll ==
    /\ aim_time # None
    /\ LET q == get_nustar_roll(aim_time, angle)
       IN  /\ args' = [args EXCEPT !.get_nustar_roll = [time |-> aim_time, angle |-> angle]]
           /\ exc' = [exc EXCEPT !.get_nustar_roll = q.raised]
           /\ IF q.raised # "none" THEN UNCHANGED nustar_roll ELSE nustar_roll' = q.value
    /\ UNCHANGED <<aim_time, offset, angle, dwell_start, dwell_end, sky_pos>>

Next ==
    \/ \E t \in AimTimes : UsageCell(t)
    \/ \E w \in DwellWindows : DwellCell(w[1], w[2])
    \/ GetSkyPosition
    \/ GetNustarRoll

Spec == Init /\ [][Next]_vars

(***************************************************************************)
(* What the properties are stated with.                                    *)
(***************************************************************************)
\* the latest call of the function was made and returned
SkyReturned == args.get_sky_position # None /\ exc.get_sky_position = "none"
RollReturned == args.get_nustar_roll # None /\ exc.get_nustar_roll = "none"

\* the angle a number of `unit` denotes, in degrees
AngleInDegrees(x, unit) ==
    RMul(x, IF unit = "deg" THEN ROne
            ELSE IF unit = "arcmin" THEN Rat(1, 60) ELSE Rat(1, 3600))

\* an offset as the contract wants it: two components and an angular unit
IsOffsetVector(off) ==
    off.ndim = 1 /\ Len(off.data) = 2 /\ off.unit \in AngularUnits

\* the Sun's position and the north-pole angle at the time of the latest call
SunOf(time) == get_sun(astropy_Time(parse_time(time)))
PoleOf(time) == solar_north(time)

\* C1: get_nustar_roll(t, a) is P(t) + a less a whole number of turns, and
\* lies in [0, 360); P(t) is the north-pole position angle in degrees
C1_RollIsSumModulo360 ==
    RollReturned =>
        LET a == args.get_nustar_roll
            sum == RAdd(PoleOf(a.time).deg, AngleInDegrees(a.angle.data, a.angle.unit))
            roll == nustar_roll.data
        IN  /\ nustar_roll.unit = "deg" /\ nustar_roll.ndim = 0
            /\ \E k \in -(MaxTurns + 2)..(MaxTurns + 2) :
                    roll = RAdd(sum, RInt(-FullCircle * k))
            /\ ~RLess(roll, RZero)
            /\ RLess(roll, RInt(FullCircle))

\* a negative angle on top of a negative north-pole angle: the sum is
\* negative, more than a turn below zero
C1_Witness ==
    /\ RollReturned
    /\ RLess(args.get_nustar_roll.angle.data, RInt(-FullCircle))
    /\ RLess(PoleOf(args.get_nustar_roll.time).deg, RZero)

\* the angle a plus one turn, in a's unit
PlusOneTurn(a) ==
    Array(a.unit, 0,
          RAdd(a.data, RInt(IF a.unit = "deg" THEN FullCircle ELSE
                            IF a.unit = "arcmin" THEN FullCircle * 60
                            ELSE FullCircle * 3600)))

\* x less the whole turns in it, in [0, 360)
Reduce360(x) == RAdd(x, RInt(-FullCircle * RFloor(RDiv(x, RInt(FullCircle)))))

\* C2: get_nustar_roll(t, a) = get_nustar_roll(t, a + 360 deg) mod 360
C2_RollPeriodic ==
    RollReturned =>
        LET a == args.get_nustar_roll
            shifted == get_nustar_roll(a.time, PlusOneTurn(a.angle))
        IN  /\ shifted.raised = "none"
            /\ nustar_roll.data = Reduce360(shifted.value.data)

\* a roll whose sum P + a is negative, so that the reduction has to add turns
C2_Witness ==
    /\ RollReturned
    /\ RLess(RAdd(PoleOf(args.get_nustar_roll.time).deg,
                  AngleInDegrees(args.get_nustar_roll.angle.data,
                                 args.get_nustar_roll.angle.unit)), RZero)
    /\ args.get_nustar_roll.angle.unit = "deg"

\* C3: a zero offset gives the Sun's (RA, Dec) of the ephemeris
C3_ZeroOffsetIsSun ==
    (args.get_sky_position # None
        /\ IsOffsetVector(args.get_sky_position.offset)
        /\ AllZero(args.get_sky_position.offset)) =>
        LET sun == SunOf(args.get_sky_position.time)
        IN  /\ exc.get_sky_position = "none"
            /\ sky_pos = Array("deg", 1, <<sun.ra, sun.dec>>)

\* a zero offset at a time when the north pole is tilted and the Sun is off
\* the equator
C3_Witness ==
    /\ SkyReturned
    /\ IsOffsetVector(args.get_sky_position.offset)
    /\ AllZero(args.get_sky_position.offset)
    /\ PoleOf(args.get_sky_position.time).sin # RZero
    /\ SunOf(args.get_sky_position.time).cos # ROne

\* the RA and Dec deltas (degrees) the claims state for the offset (x, y)
\* given in `unit`, at `time`: the offset rotated counter-clockwise by p,
\* the RA component divided by cos(Dec) and negated
StatedDelta(time, x, y, unit) ==
    LET c == PoleOf(time).cos
        sn == PoleOf(time).sin
        rx == RAdd(RMul(x, c), RNeg(RMul(y, sn)))
        ry == RAdd(RMul(x, sn), RMul(y, c))
    IN  << AngleInDegrees(RNeg(RDiv(rx, SunOf(time).cos)), unit),
           AngleInDegrees(ry, unit) >>

\* C5: get_sky_position(t, (x, y)) =
\*     Sun(t) + (-(x cos p - y sin p) / cos(Dec), x sin p + y cos p)
C5_SkyPositionFormula ==
    (args.get_sky_position # None /\ IsOffsetVector(args.get_sky_position.offset)) =>
        LET a == args.get_sky_position
            sun == SunOf(a.time)
            d == StatedDelta(a.time, a.offset.data[1], a.offset.data[2], a.offset.unit)
        IN  /\ exc.get_sky_position = "none"
            /\ sky_pos = Array("deg", 1, <<RAdd(sun.ra, d[1]), RAdd(sun.dec, d[2])>>)

\* an offset with both components set, a tilted pole and a Sun off the equator
C5_Witness ==
    /\ SkyReturned
    /\ IsOffsetVector(args.get_sky_position.offset)
    /\ args.get_sky_position.offset.data[1] # RZero
    /\ args.get_sky_position.offset.data[2] # RZero
    /\ PoleOf(args.get_sky_position.time).sin # RZero
    /\ SunOf(args.get_sky_position.time).cos # ROne

\* the RA and Dec deltas of get_sky_position(time, (x, y) unit): the result
\* less the Sun's position
DeltaOf(time, x, y, unit) ==
    LET r == get_sky_position(time, Array(unit, 1, <<x, y>>)).value
        sun == SunOf(time)
    IN  <<RAdd(r.data[1], RNeg(sun.ra)), RAdd(r.data[2], RNeg(sun.dec))>>

\* the deltas of the result of the latest call
DeltaOfLatest ==
    LET sun == SunOf(args.get_sky_position.time)
    IN  <<RAdd(sky_pos.data[1], RNeg(sun.ra)), RAdd(sky_pos.data[2], RNeg(sun.dec))>>

\* C4 as stated: the RA delta of (-x, y) is the negation of the RA delta of
\* (x, y), for every offset
C4_Original ==
    (args.get_sky_position # None /\ IsOffsetVector(args.get_sky_position.offset)) =>
        LET a == args.get_sky_position
            mirrored == DeltaOf(a.time, RNeg(a.offset.data[1]), a.offset.data[2], a.offset.unit)
        IN  mirrored[1] = RNeg(DeltaOfLatest[1])

\* C4 amended: the RA deltas of (-x, y) and (x, y) add up to
\* 2 y sin p / cos(Dec), so one is the negation of the other exactly when
\* y = 0 or sin p = 0
C4_Amended ==
    (args.get_sky_position # None /\ IsOffsetVector(args.get_sky_position.offset)) =>
        LET a == args.get_sky_position
            y == a.offset.data[2]
            mirrored == DeltaOf(a.time, RNeg(a.offset.data[1]), y, a.offset.unit)
            total == RAdd(mirrored[1], DeltaOfLatest[1])
        IN  /\ total = AngleInDegrees(
                    RDiv(RMul(RInt(2), RMul(y, PoleOf(a.time).sin)), SunOf(a.time).cos),
                    a.offset.unit)
            /\ (mirrored[1] = RNeg(DeltaOfLatest[1]))
                    <=> (y = RZero \/ PoleOf(a.time).sin = RZero)

\* an offset with x and y set at a time when the pole is tilted
C4_Witness ==
    /\ SkyReturned
    /\ IsOffsetVector(args.get_sky_position.offset)
    /\ args.get_sky_position.offset.data[1] # RZero
    /\ args.get_sky_position.offset.data[2] # RZero
    /\ RLess(PoleOf(args.get_sky_position.time).sin, RZero)

\* C10: the RA delta and the Dec delta of (-x, -y) are the negations of
\* those of (x, y)
C10_PointSymmetric ==
    (args.get_sky_position # None /\ IsOffsetVector(args.get_sky_position.offset)) =>
        LET a == args.get_sky_position
            opposite == DeltaOf(a.time, RNeg(a.offset.data[1]), RNeg(a.offset.data[2]),
                                a.offset.unit)
        IN  /\ exc.get_sky_position = "none"
            /\ opposite[1] = RNeg(DeltaOfLatest[1])
            /\ opposite[2] = RNeg(DeltaOfLatest[2])

\* a nonzero offset given in arcseconds, a tilted pole, a Sun off the equator
C10_Witness ==
    /\ SkyReturned
    /\ IsOffsetVector(args.get_sky_position.offset)
    /\ args.get_sky_position.offset.unit = "arcsec"
    /\ args.get_sky_position.offset.data[1] # RZero
    /\ RLess(RZero, PoleOf(args.get_sky_position.time).sin)
    /\ SunOf(args.get_sky_position.time).cos # ROne

\* C7: an offset in arcminutes gives the sky position of the same offset
\* written in arcseconds (60 times the numbers)
C7_ArcminAsArcsec ==
    (args.get_sky_position # None
        /\ IsOffsetVector(args.get_sky_position.offset)
        /\ args.get_sky_position.offset.unit = "arcmin") =>
        LET a == args.get_sky_position
            arcsec == Array("arcsec", 1, <<RMul(RInt(60), a.offset.data[1]),
                                           RMul(RInt(60), a.offset.data[2])>>)
            r == get_sky_position(a.time, arcsec)
        IN  /\ exc.get_sky_position = "none"
            /\ r.raised = "none"
            /\ sky_pos = r.value

\* a nonzero offset given in arcminutes
C7_Witness ==
    /\ SkyReturned
    /\ IsOffsetVector(args.get_sky_position.offset)
    /\ args.get_sky_position.offset.unit = "arcmin"
    /\ ~AllZero(args.get_sky_position.offset)

\* cell 5 ran last: aim_time is the datetime it derived from the dwell
AfterDwellCell == dwell_start # None /\ aim_time.kind = "datetime"

\* 2 * aim - (start + end) in microseconds, for an aim within a second and a
\* half of the exact midpoint; TooFar otherwise
TooFar == 4 * MicrosPerSecond
TwiceAimLessEnds(aim, start, end) ==
    LET dsec == 2 * (aim.sec - start.sec) - (end.sec - start.sec)
        dus == 2 * (aim.usec - start.usec) - (end.usec - start.usec)
    IN  IF Abs(dsec) > 3 THEN TooFar ELSE dsec * MicrosPerSecond + dus

\* get_sky_position and get_nustar_roll give, for every literal of the instant
\* aim_time, what the latest calls (made with aim_time) gave
SameAsLiteral ==
    \A lit \in TimeStrings :
        parse_time(lit) = aim_time =>
            LET r == get_sky_position(lit, offset)
                q == get_nustar_roll(lit, angle)
            IN  /\ r.raised = exc.get_sky_position
                /\ (r.raised = "none" => r.value = sky_pos /\ q.value = nustar_roll)

\* the window of the notebook gives 19:53:15 exactly
NotebookWindow ==
    (dwell_start = TimeString(19, 22, 10, <<>>) /\ dwell_end = TimeString(20, 24, 20, <<>>))
        => aim_time = datetime(19 * 3600 + 53 * 60 + 15, 0)

\* C6 as stated: the aim time is start + (end - start)/2, 19:53:15 for the
\* window of the notebook, and the two functions give for it what they give
\* for the literal timestamp of the same instant
C6_Original ==
    AfterDwellCell =>
        /\ TwiceAimLessEnds(aim_time, parse_time(dwell_start), parse_time(dwell_end)) = 0
        /\ NotebookWindow
        /\ SameAsLiteral

\* C6 amended: the aim time is start + (end - start)/2 rounded to a whole
\* microsecond, a tie going to the even number of microseconds after start
\* (so it is exact when end - start is an even number of microseconds);
\* the rest as stated
C6_Amended ==
    AfterDwellCell =>
        LET start == parse_time(dwell_start)
            d == TwiceAimLessEnds(aim_time, start, parse_time(dwell_end))
        IN  /\ \/ d = 0
               \/ Abs(d) = 1 /\ (aim_time.usec - start.usec) % 2 = 0
            /\ NotebookWindow
            /\ SameAsLiteral

\* a dwell of an odd number of microseconds, whose midpoint was rounded and
\* has a literal among the time strings
C6_Witness ==
    /\ AfterDwellCell
    /\ SkyReturned
    /\ RollReturned
    /\ TwiceAimLessEnds(aim_time, parse_time(dwell_start), parse_time(dwell_end)) = 1
    /\ \E lit \in TimeStrings : parse_time(lit) = aim_time

\* the last axis of the array does not have two elements
LastAxisNotTwo(off) ==
    \/ off.ndim = 1 /\ Len(off.data) # 2
    \/ off.ndim = 2 /\ \E i \in DOMAIN off.data : Len(off.data[i]) # 2

=============================================================================
